---- MODULE Spec2Model ----
(***************************************************************************)
(* Model of langchain_ibm/chat_models.py (ChatWatsonx): the message codec, *)
(* the tool-call emulation over free text, the response assembler and the  *)
(* structured-output binder.                                               *)
(*                                                                         *)
(* Python values are tagged records [t, v].  A Python str is a sequence of *)
(* atoms; an atom is one character or one indivisible lexeme (a word, a    *)
(* control token).  No atom of the alphabet is a prefix or a part of       *)
(* another structural lexeme, so substring operations on characters and on *)
(* atoms agree.                                                            *)
(***************************************************************************)
EXTENDS Integers, Sequences, FiniteSets, TLC

VARIABLES
    model_id,        \* ChatWatsonx.model_id
    params,          \* ChatWatsonx.params (default generation params)
    op,              \* the call the caller has made, "idle" between calls
    arg,             \* its arguments
    ret,             \* its outcome: a returned value or a raised error
    generate_calls,  \* number of watsonx_model.generate invocations it made
    sent             \* the arguments of that invocation

vars == <<model_id, params, generate_calls, sent, op, arg, ret>>

(***************************************************************************)
(* Python values                                                           *)
(***************************************************************************)
PNone == [t |-> "none", v |-> 0]
PStr(s) == [t |-> "str", v |-> s]
PNum(lexeme) == [t |-> "num", v |-> lexeme]
PBool(b) == [t |-> "bool", v |-> b]
PList(items) == [t |-> "list", v |-> items]
PDict(pairs) == [t |-> "dict", v |-> pairs]

W(word) == PStr(<<word>>)
EmptyStr == PStr(<<>>)

\* dict operations: a dict is a sequence of <<key, value>> pairs, keys are
\* atom sequences, in insertion order, without duplicate keys
HasKey(d, k) == \E i \in 1..Len(d.v) : d.v[i][1] = k
KeyIndex(d, k) == CHOOSE i \in 1..Len(d.v) : d.v[i][1] = k
DictGet(d, k, default) == IF HasKey(d, k) THEN d.v[KeyIndex(d, k)][2] ELSE default
DictSet(d, k, val) ==
    IF HasKey(d, k)
    THEN PDict([d.v EXCEPT ![KeyIndex(d, k)] = <<k, val>>])
    ELSE PDict(Append(d.v, <<k, val>>))
DictDel(d, k) == PDict(SelectSeq(d.v, LAMBDA p : p[1] # k))
\* d1 | d2
DictMerge(d1, d2) ==
    LET RECURSIVE Go(_, _)
        Go(acc, i) == IF i > Len(d2.v) THEN acc
                      ELSE Go(DictSet(acc, d2.v[i][1], d2.v[i][2]), i + 1)
    IN Go(d1, 1)

Digits == {"0", "1", "2"}
IsZeroLexeme(lexeme) == \A i \in 1..Len(lexeme) : lexeme[i] \notin (Digits \ {"0"})

\* Python truth value of a value
Truthy(x) ==
    CASE x.t = "none" -> FALSE
      [] x.t = "bool" -> x.v
      [] x.t = "num" -> ~IsZeroLexeme(x.v)
      [] OTHER -> Len(x.v) > 0

\* outcomes of a call
Return(val) == [v |-> val, raised |-> FALSE]
PException(exc) == [t |-> "exception", v |-> <<exc>>]
Raise(exc) == [v |-> PException(exc), raised |-> TRUE]

(***************************************************************************)
(* str operations                                                          *)
(***************************************************************************)
Whitespace == {" ", "\n"}

\* s[i..j]
Slice(s, i, j) == SubSeq(s, i, j)

StartsWithAt(s, i, sub) ==
    /\ i + Len(sub) - 1 <= Len(s)
    /\ \A k \in 1..Len(sub) : s[i + k - 1] = sub[k]

\* str.replace(old, "") for a non-empty old: non-overlapping, left to right
RECURSIVE RemoveAll(_, _)
RemoveAll(s, old) ==
    IF Len(s) = 0 THEN s
    ELSE IF StartsWithAt(s, 1, old) THEN RemoveAll(Slice(s, Len(old) + 1, Len(s)), old)
    ELSE <<s[1]>> \o RemoveAll(Tail(s), old)

\* str.strip()
RECURSIVE LStrip(_)
LStrip(s) == IF Len(s) > 0 /\ s[1] \in Whitespace THEN LStrip(Tail(s)) ELSE s
RECURSIVE RStrip(_)
RStrip(s) == IF Len(s) > 0 /\ s[Len(s)] \in Whitespace
             THEN RStrip(Slice(s, 1, Len(s) - 1)) ELSE s
Strip(s) == RStrip(LStrip(s))

(***************************************************************************)
(* json.loads on a str: a recursive-descent reading of the JSON grammar    *)
(* as Python's decoder accepts it (strict mode).                           *)
(***************************************************************************)
Quote == "\""
EscQuote == "\\\""
EscNewline == "\\n"
\* one emoji character, and its escape as json.dumps writes it
Emoji == "<emoji>"
EscEmoji == "\\ud83d\\ude00"

ParseFail == [v |-> PNone, i |-> 0, ok |-> FALSE]
ParseOk(val, next) == [v |-> val, i |-> next, ok |-> TRUE]

RECURSIVE SkipWs(_, _)
SkipWs(s, i) == IF i <= Len(s) /\ s[i] \in Whitespace THEN SkipWs(s, i + 1) ELSE i

\* index of the last digit of the run of digits that starts at k
RECURSIVE DigitRunEnd(_, _)
DigitRunEnd(s, k) ==
    IF k + 1 <= Len(s) /\ s[k + 1] \in Digits THEN DigitRunEnd(s, k + 1) ELSE k

\* NUMBER_RE: (-?(?:0|[1-9]\d*))(\.\d+)?  matched as a prefix at j
ParseNumber(s, j) ==
    LET k == IF s[j] = "-" THEN j + 1 ELSE j IN
    IF k > Len(s) \/ s[k] \notin Digits THEN ParseFail
    ELSE LET intEnd == IF s[k] = "0" THEN k ELSE DigitRunEnd(s, k)
             hasFrac == /\ intEnd + 2 <= Len(s)
                        /\ s[intEnd + 1] = "."
                        /\ s[intEnd + 2] \in Digits
             end == IF hasFrac THEN DigitRunEnd(s, intEnd + 2) ELSE intEnd
         IN ParseOk(PNum(Slice(s, j, end)), end + 1)

\* the escapes of a string literal, decoded
DecodeAtom(a) ==
    CASE a = EscQuote -> Quote
      [] a = EscNewline -> "\n"
      [] a = EscEmoji -> Emoji
      [] OTHER -> a

RECURSIVE DecodeAll(_)
DecodeAll(body) ==
    IF Len(body) = 0 THEN <<>> ELSE <<DecodeAtom(body[1])>> \o DecodeAll(Tail(body))

\* py_scanstring from the atom after the opening quote
ParseString(s, i) ==
    IF \A k \in i..Len(s) : s[k] # Quote THEN ParseFail
    ELSE LET close == CHOOSE k \in i..Len(s) :
                         s[k] = Quote /\ \A m \in i..(k - 1) : s[m] # Quote
             body == Slice(s, i, close - 1)
         IN IF \E m \in 1..Len(body) : body[m] = "\n"
            THEN ParseFail   \* raw control character inside a string
            ELSE ParseOk(PStr(DecodeAll(body)), close + 1)

RECURSIVE ParseValue(_, _)
RECURSIVE ParseArrayRest(_, _, _)
RECURSIVE ParseObjectRest(_, _, _)

ParseValue(s, i) ==
    LET j == SkipWs(s, i) IN
    IF j > Len(s) THEN ParseFail
    ELSE CASE s[j] = "{" -> ParseObjectRest(s, j + 1, <<>>)
           [] s[j] = "[" -> ParseArrayRest(s, j + 1, <<>>)
           [] s[j] = Quote -> ParseString(s, j + 1)
           [] s[j] = "true" -> ParseOk(PBool(TRUE), j + 1)
           [] s[j] = "false" -> ParseOk(PBool(FALSE), j + 1)
           [] s[j] = "null" -> ParseOk(PNone, j + 1)
           [] s[j] \in Digits \cup {"-"} -> ParseNumber(s, j)
           [] OTHER -> ParseFail

\* after "[" (acc empty) or after a "," (acc non-empty)
ParseArrayRest(s, i, acc) ==
    LET j == SkipWs(s, i) IN
    IF j > Len(s) THEN ParseFail
    ELSE IF s[j] = "]" /\ acc = <<>> THEN ParseOk(PList(<<>>), j + 1)
    ELSE LET item == ParseValue(s, j) IN
         IF ~item.ok THEN ParseFail
         ELSE LET k == SkipWs(s, item.i) IN
              IF k > Len(s) THEN ParseFail
              ELSE IF s[k] = "]" THEN ParseOk(PList(Append(acc, item.v)), k + 1)
              ELSE IF s[k] = "," THEN ParseArrayRest(s, k + 1, Append(acc, item.v))
              ELSE ParseFail

\* after "{" (acc empty) or after a "," (acc non-empty); acc is a dict body
ParseObjectRest(s, i, acc) ==
    LET j == SkipWs(s, i) IN
    IF j > Len(s) THEN ParseFail
    ELSE IF s[j] = "}" /\ acc = <<>> THEN ParseOk(PDict(<<>>), j + 1)
    ELSE IF s[j] # Quote THEN ParseFail
    ELSE LET key == ParseString(s, j + 1) IN
         IF ~key.ok THEN ParseFail
         ELSE LET c == SkipWs(s, key.i) IN
              IF c > Len(s) \/ s[c] # ":" THEN ParseFail
              ELSE LET val == ParseValue(s, c + 1) IN
                   IF ~val.ok THEN ParseFail
                   ELSE LET k == SkipWs(s, val.i)
                            acc2 == DictSet(PDict(acc), key.v.v, val.v).v
                        IN IF k > Len(s) THEN ParseFail
                           ELSE IF s[k] = "}" THEN ParseOk(PDict(acc2), k + 1)
                           ELSE IF s[k] = "," THEN ParseObjectRest(s, k + 1, acc2)
                           ELSE ParseFail

\* the end of json.loads(s): nothing but whitespace may follow the value
LoadsResult(s, r) ==
    IF r.ok /\ SkipWs(s, r.i) > Len(s) THEN Return(r.v) ELSE Raise("JSONDecodeError")

\* json.loads(s) for a str s: Return(value), or Raise("JSONDecodeError")
json_loads_str(s) == LoadsResult(s, ParseValue(s, 1))

\* json.loads(x): a non-str argument is a TypeError
json_loads(x) == IF x.t = "str" THEN json_loads_str(x.v) ELSE Raise("TypeError")

(***************************************************************************)
(* json.dumps with the default separators                                  *)
(***************************************************************************)
EncodeAtom(a) ==
    CASE a = Quote -> EscQuote
      [] a = "\n" -> EscNewline
      [] a = Emoji -> EscEmoji
      [] OTHER -> a

RECURSIVE EncodeAll(_)
EncodeAll(body) ==
    IF Len(body) = 0 THEN <<>> ELSE <<EncodeAtom(body[1])>> \o EncodeAll(Tail(body))

RECURSIVE json_dumps(_)
RECURSIVE DumpItems(_, _)
RECURSIVE DumpPairs(_, _)
json_dumps(x) ==
    CASE x.t = "none" -> <<"null">>
      [] x.t = "bool" -> IF x.v THEN <<"true">> ELSE <<"false">>
      [] x.t = "num" -> x.v
      [] x.t = "str" -> <<Quote>> \o EncodeAll(x.v) \o <<Quote>>
      [] x.t = "list" -> <<"[">> \o DumpItems(x.v, 1) \o <<"]">>
      [] x.t = "dict" -> <<"{">> \o DumpPairs(x.v, 1) \o <<"}">>
DumpItems(items, i) ==
    IF i > Len(items) THEN <<>>
    ELSE (IF i > 1 THEN <<",", " ">> ELSE <<>>) \o json_dumps(items[i])
         \o DumpItems(items, i + 1)
DumpPairs(pairs, i) ==
    IF i > Len(pairs) THEN <<>>
    ELSE (IF i > 1 THEN <<",", " ">> ELSE <<>>)
         \o <<Quote>> \o EncodeAll(pairs[i][1]) \o <<Quote, ":", " ">>
         \o json_dumps(pairs[i][2]) \o DumpPairs(pairs, i + 1)

(***************************************************************************)
(* Messages (langchain_core.messages), as the fields this module reads     *)
(***************************************************************************)
Message(type, content) ==
    [type |-> type, content |-> content, additional_kwargs |-> PDict(<<>>),
     tool_calls |-> PList(<<>>), name |-> PNone, tool_call_id |-> PNone,
     role |-> PNone, usage_metadata |-> PNone]

AIMessage(content, tool_calls) ==
    [Message("AIMessage", content) EXCEPT !.tool_calls = tool_calls]
SystemMessage(content) == Message("SystemMessage", content)
HumanMessage(content) == Message("HumanMessage", content)

\* dict.get on a response, a result or keyword arguments: a record whose
\* fields may be absent
Get(rec, key, default) == IF key \in DOMAIN rec THEN rec[key] ELSE default

(***************************************************************************)
(* Tool-call emulation: classification of the generated text               *)
(***************************************************************************)
\* tags_to_remove, one literal of four lexemes
TagsToRemove == <<"<|python_tag|>", "<|start_header_id|>", "assistant", "<|end_header_id|>">>
\* the markdown fence, three backquote characters, as one lexeme
Fence == "<fence>"

\* _is_json(input): the parsed value itself, or False
IsJsonOf(r) == IF r.raised THEN PBool(FALSE) ELSE r.v
_is_json(input) == IsJsonOf(json_loads_str(input))

\* _convert_to_json(input)
ConvertOf(r) == IF r.raised THEN Raise("ValueError") ELSE r
_convert_to_json(input) == ConvertOf(json_loads_str(input))

\* remove_tags_and_parse after the tags are removed and the text stripped
ParseCleaned(cleaned_string) ==
    IF Truthy(_is_json(cleaned_string))
    THEN _convert_to_json(cleaned_string)
    ELSE Return(PStr(RemoveAll(cleaned_string, <<Fence>>)))

\* faulty variant, for sensitivity of the properties: the control tokens are left in the text
remove_tags_and_parse_KeepTags(input_string) == ParseCleaned(Strip(input_string))

\* remove_tags_and_parse(input_string): a parsed JSON value or a str
remove_tags_and_parse(input_string) ==
    ParseCleaned(Strip(RemoveAll(input_string, TagsToRemove)))

\* a list of one dict stands for that dict
Unwrapped(tool) ==
    IF tool.t = "list" /\ Len(tool.v) = 1 /\ tool.v[1].t = "dict" THEN tool.v[1] ELSE tool

\* faulty variant, for sensitivity of the properties: "args" only has to be a mapping
HasQueryArgs_AnyArgs(tool) ==
    /\ tool.t = "dict"
    /\ DictGet(tool, <<"args">>, PNone).t = "dict"

\* the tests of _is_valid_tool_call_format on a value that is no list
HasQueryArgs(tool) ==
    /\ tool.t = "dict"
    /\ DictGet(tool, <<"args">>, PNone).t = "dict"
    /\ HasKey(DictGet(tool, <<"args">>, PNone), <<"query">>)

\* _is_valid_tool_call_format after the str case
ValidToolCallValue(tool) == HasQueryArgs(Unwrapped(tool))
ValidLoaded(r) == ~r.raised /\ ValidToolCallValue(r.v)

\* _is_valid_tool_call_format(tool)
_is_valid_tool_call_format(tool) ==
    IF tool.t = "str" THEN ValidLoaded(json_loads(tool)) ELSE ValidToolCallValue(tool)

\* faulty variant, for sensitivity of the properties: the tools keep the id they came with
WithId_Unchanged(tools, call_id) == tools

\* tool.update({"id": call_id}) for every tool of a list of dicts
RECURSIVE WithId(_, _)
WithId(tools, call_id) ==
    IF Len(tools) = 0 THEN <<>>
    ELSE <<DictSet(tools[1], <<"id">>, PStr(call_id))>> \o WithId(Tail(tools), call_id)

\* _tool_calling once raw_tool_calls is no str
ToolCallsOf(raw, call_id) ==
    CASE raw.t = "list" ->
           IF Len(raw.v) = 1 /\ raw.v[1].t = "dict"
           THEN \* raw_tool_calls = raw_tool_calls[0]: the loop then runs over the
                \* keys of the dict, and a str has no update()
                IF Len(raw.v[1].v) = 0
                THEN Return(AIMessage(EmptyStr, PList(<<>>)))
                ELSE Raise("AttributeError")
           ELSE Raise("ValueError")
      [] raw.t = "dict" ->
           Return(AIMessage(EmptyStr, PList(WithId(<<raw>>, call_id))))
      [] raw.t = "str" ->
           IF Len(raw.v) = 0 THEN Return(AIMessage(EmptyStr, PList(<<>>)))
           ELSE Raise("AttributeError")
      [] OTHER -> Raise("TypeError")   \* not iterable
ToolCallsLoaded(loaded, call_id) ==
    IF loaded.raised THEN loaded ELSE ToolCallsOf(loaded.v, call_id)

\* _tool_calling(raw_tool_calls, call_id)
_tool_calling(raw_tool_calls, call_id) ==
    ToolCallsLoaded(IF raw_tool_calls.t = "str" THEN json_loads(raw_tool_calls)
                    ELSE Return(raw_tool_calls),
                    call_id)

\* what re.findall(pattern, ...) keeps of one atom: the class is A-Z a-z 0-9 whitespace , . -
AlnumWords ==
    {"args", "query", "name", "search", "q", "content", "role", "tool", "ok",
     "hi", "id", "assistant", "true", "false", "null", "x", "json"}
KeptOf(a) ==
    CASE a \in AlnumWords \cup Digits \cup {" ", "\n", ",", ".", "-"} -> <<a>>
      [] a = "<|python_tag|>" -> <<"python", "tag">>
      [] a = "<|start_header_id|>" -> <<"start", "header", "id">>
      [] a = "<|end_header_id|>" -> <<"end", "header", "id">>
      [] a = "tool_calls" -> <<"tool", "calls">>
      [] a = EscNewline -> <<"n">>
      [] OTHER -> <<>>

\* the matches of re.findall(pattern, s), joined
RECURSIVE KeepMatches(_)
KeepMatches(s) == IF Len(s) = 0 THEN <<>> ELSE KeptOf(s[1]) \o KeepMatches(Tail(s))

\* faulty variant, for sensitivity of the properties: line feeds are not removed before filtering
PlainContent_KeepLf(raw_message) ==
    IF raw_message.t # "str" THEN Raise("AttributeError")
    ELSE Return(AIMessage(PStr(KeepMatches(raw_message.v)), PList(<<>>)))

\* the else branch of _post_processing
PlainContent(raw_message) ==
    IF raw_message.t # "str" THEN Raise("AttributeError")   \* no replace()
    ELSE Return(AIMessage(PStr(KeepMatches(RemoveAll(raw_message.v, <<"\n">>))),
                          PList(<<>>)))

\* faulty variant, for sensitivity of the properties: the fields of a dict are not read
Classify_DictIgnored(raw_message, call_id) ==
    IF _is_valid_tool_call_format(raw_message)
    THEN _tool_calling(raw_message, call_id)
    ELSE IF raw_message.t = "dict"
    THEN Return(AIMessage(EmptyStr, PList(<<>>)))
    ELSE PlainContent(raw_message)

\* the branches of _post_processing on raw_message
Classify(raw_message, call_id) ==
    IF _is_valid_tool_call_format(raw_message)
    THEN _tool_calling(raw_message, call_id)
    ELSE IF raw_message.t = "dict"
    THEN Return(AIMessage(DictGet(raw_message, <<"content">>, EmptyStr),
                          DictGet(raw_message, <<"tool_calls">>, PList(<<>>))))
    ELSE PlainContent(raw_message)
ClassifyParsed(parsed, call_id) ==
    IF parsed.raised THEN parsed ELSE Classify(parsed.v, call_id)

\* _post_processing(_dict, call_id)
_post_processing(_dict, call_id) ==
    ClassifyParsed(remove_tags_and_parse(Get(_dict, "generated_text", <<>>)), call_id)

(***************************************************************************)
(* Response assembler                                                      *)
(***************************************************************************)
UsageMetadata(input, output) ==
    [input_tokens |-> input, output_tokens |-> output, total_tokens |-> input + output]

\* faulty variant, for sensitivity of the properties: the sum is overwritten by the count of the current result
Accumulate_Overwrite(total, res, key) == IF key \in DOMAIN res THEN res[key] ELSE 0

\* if key in res: total += res[key]
Accumulate(total, res, key) == IF key \in DOMAIN res THEN total + res[key] ELSE total

\* the message of one generation, given the running sums that include it
WithUsage(message, input, output) ==
    IF input + output # 0
    THEN [message EXCEPT !.usage_metadata = UsageMetadata(input, output)]
    ELSE message

Generation(message, res) ==
    [message |-> message,
     generation_info |-> [finish_reason |-> Get(res, "stop_reason", PNone)]]

\* the loop of _create_chat_result from result i on
RECURSIVE AssembleFrom(_, _, _, _, _, _)
RECURSIVE AssembleStep(_, _, _, _, _, _, _)
AssembleFrom(results, i, call_id, generated, input, generations) ==
    IF i > Len(results)
    THEN Return([input |-> input, generated |-> generated, generations |-> generations])
    ELSE AssembleStep(results, i, call_id,
                      Accumulate(generated, results[i], "generated_token_count"),
                      Accumulate(input, results[i], "input_token_count"),
                      generations, _post_processing(results[i], call_id))
\* the body of the loop once the message of result i is made
AssembleStep(results, i, call_id, generated, input, generations, message) ==
    IF message.raised THEN message
    ELSE AssembleFrom(results, i + 1, call_id, generated, input,
             Append(generations,
                    Generation(WithUsage(message.v, input, generated), results[i])))

\* faulty variant, for sensitivity of the properties: the error is never looked at
HasError_Never(response) == FALSE

\* the test that a response carries an error
HasError(response) == Truthy(Get(response, "error", PNone))

\* the ChatResult of the assembled generations
ChatResult(self_model_id, response, r) ==
    IF r.raised THEN r
    ELSE Return(
       [generations |-> r.v.generations,
        llm_output |->
           [token_usage |-> [generated_token_count |-> r.v.generated,
                             input_token_count |-> r.v.input],
            model_name |-> self_model_id,
            system_fingerprint |-> Get(response, "system_fingerprint", EmptyStr)]])

\* _create_chat_result(response), with the call_id that uuid4 gave it
_create_chat_result(self_model_id, response, call_id) ==
    IF HasError(response) THEN Raise("ValueError")
    ELSE IF "results" \notin DOMAIN response THEN Raise("KeyError")
    ELSE ChatResult(self_model_id, response,
                    AssembleFrom(response.results, 1, call_id, 0, 0, <<>>))

(***************************************************************************)
(* Message codec                                                           *)
(***************************************************************************)
K(word) == <<word>>

\* message_dict[key] = additional_kwargs[key], and a content of "" becomes
\* None, when additional_kwargs has the key
WithCall(message_dict, additional_kwargs, key) ==
    IF ~HasKey(additional_kwargs, key) THEN message_dict
    ELSE IF DictGet(message_dict, K("content"), PNone) = EmptyStr
    THEN DictSet(DictSet(message_dict, key, DictGet(additional_kwargs, key, PNone)),
                 K("content"), PNone)
    ELSE DictSet(message_dict, key, DictGet(additional_kwargs, key, PNone))

\* the AIMessage branch of _convert_message_to_dict; the literal in its last
\* test is a non-empty str, so tool_calls is always set from the message
AssistantDict(message) ==
    DictSet(
        WithCall(
            WithCall(PDict(<< <<K("role"), W("assistant")>>,
                              <<K("content"), message.content>> >>),
                     message.additional_kwargs, K("function_call")),
            message.additional_kwargs, K("tool_calls")),
        K("tool_calls"), message.tool_calls)

RoleContent(role, content) ==
    PDict(<< <<K("role"), role>>, <<K("content"), content>> >>)

\* the branches of _convert_message_to_dict on the type of the message
TypedDict(message) ==
    CASE message.type = "ChatMessage" ->
           Return(RoleContent(message.role, message.content))
      [] message.type = "HumanMessage" ->
           Return(RoleContent(W("user"), message.content))
      [] message.type = "AIMessage" -> Return(AssistantDict(message))
      [] message.type = "SystemMessage" ->
           Return(RoleContent(W("system"), message.content))
      [] message.type = "FunctionMessage" ->
           Return(DictSet(RoleContent(W("function"), message.content),
                          K("name"), message.name))
      [] message.type = "ToolMessage" ->
           Return(DictSet(RoleContent(W("tool"), message.content),
                          K("tool_call_id"), message.tool_call_id))
      [] OTHER -> Raise("TypeError")

\* the name of additional_kwargs, when there is one
WithName(message, typed) ==
    IF typed.raised THEN typed
    ELSE IF HasKey(message.additional_kwargs, K("name"))
    THEN Return(DictSet(typed.v, K("name"),
                        DictGet(message.additional_kwargs, K("name"), PNone)))
    ELSE typed

\* _convert_message_to_dict(message)
_convert_message_to_dict(message) == WithName(message, TypedDict(message))

\* the branches of _convert_dict_to_message on the role of json_message
MessageOfRole(json_message, role) ==
    IF role \notin {W("system"), W("assistant"), W("user"), W("tool")}
    THEN Return(<<>>)
    ELSE IF ~HasKey(json_message, K("content")) THEN Raise("KeyError")
    ELSE CASE role = W("system") ->
                Return(<<SystemMessage(DictGet(json_message, K("content"), PNone))>>)
           [] role = W("assistant") ->
                Return(<<AIMessage(DictGet(json_message, K("content"), PNone),
                                   DictGet(json_message, K("tool_calls"), PList(<<>>)))>>)
           [] role = W("user") ->
                Return(<<HumanMessage(DictGet(json_message, K("content"), PNone))>>)
           \* ToolMessage(content=...) without its required tool_call_id
           [] role = W("tool") -> Raise("ValidationError")

MessageOfLoaded(loaded) ==
    IF loaded.raised THEN loaded
    ELSE IF loaded.v.t # "dict" THEN Raise("AttributeError")   \* no get()
    ELSE MessageOfRole(loaded.v, DictGet(loaded.v, K("role"), PNone))

\* one iteration of the loop of _convert_dict_to_message: the messages it
\* appends, or the error it raises
ConvertOne(message) == MessageOfLoaded(json_loads(message))

\* the outcome of a loop from that of its first iteration and of the others
Joined(head, rest) ==
    IF head.raised THEN head ELSE IF rest.raised THEN rest ELSE Return(head.v \o rest.v)

\* _convert_dict_to_message(messages)
RECURSIVE _convert_dict_to_message(_)
_convert_dict_to_message(messages) ==
    IF Len(messages) = 0 THEN Return(<<>>)
    ELSE Joined(ConvertOne(messages[1]), _convert_dict_to_message(Tail(messages)))

(***************************************************************************)
(* Generation call                                                         *)
(***************************************************************************)
\* a record without some of its fields (del kwargs[key])
Without(rec, keys) == [k \in DOMAIN rec \ keys |-> rec[k]]
\* rec | {key: val}
With(rec, key, val) == [k \in DOMAIN rec \cup {key} |-> IF k = key THEN val ELSE rec[k]]

Listed(r) == IF r.raised THEN r ELSE Return(<<r.v>>)

\* [_convert_message_to_dict(m) for m in messages]
RECURSIVE ConvertAll(_)
ConvertAll(messages) ==
    IF Len(messages) = 0 THEN Return(<<>>)
    ELSE Joined(Listed(_convert_message_to_dict(messages[1])), ConvertAll(Tail(messages)))

\* the params of the call: the defaults, then the params of the call
EffectiveParams(self_params, kwargs) ==
    DictMerge(IF Truthy(self_params) THEN self_params ELSE PDict(<<>>),
              Get(kwargs, "params", PDict(<<>>)))

\* faulty variant, for sensitivity of the properties: the key looked for is stop
StopConflict_StopKey(merged, stop) ==
    /\ stop # PNone
    /\ Truthy(merged)
    /\ HasKey(merged, K("stop"))

\* stop is given and stop_sequences is in the effective params
StopConflict(merged, stop) ==
    /\ stop # PNone
    /\ Truthy(merged)
    /\ HasKey(merged, K("stop_sequences"))

MessageDicts(converted, params2) ==
    IF converted.raised THEN converted
    ELSE Return([params |-> params2, message_dicts |-> converted.v])

\* _create_message_dicts once the params are merged
CreateWith(merged, messages, stop) ==
    IF StopConflict(merged, stop) THEN Raise("ValueError")
    ELSE MessageDicts(ConvertAll(messages),
                      IF stop # PNone THEN DictSet(merged, K("stop_sequences"), stop)
                      ELSE merged)

\* _create_message_dicts(messages, stop, **kwargs)
_create_message_dicts(self_params, messages, stop, kwargs) ==
    CreateWith(EffectiveParams(self_params, kwargs), messages, stop)

\* the instruction of the tools branch, after re.sub and strip: the text
\* before the tool descriptions, their repr, and the text after them
Instruction == "Given the following functions, please respond with a JSON for a function call with its proper arguments that best answers the given prompt."
FormatAndReminder == "Tools should use the following format: <TOOL_SCHEMA> Reminder: -Required parameters MUST be specified -Put the entire function call reply on one line -ONLY use the function arguments provided in the tool description. -If you do not need to use a tool or you have the answer then respond directly to the user."
RoleReminder == <<"\n", " ", "When responding to the user your role should always be assistant">>

RECURSIVE ReprTools(_, _)
ReprTools(tools, i) ==
    IF i > Len(tools) THEN <<>>
    ELSE (IF i > 1 THEN <<",", " ">> ELSE <<>>)
         \o <<"{", "name", ":", tools[i].function.name, ",", " ", "description", ":",
              tools[i].function.description, ",", " ", "args", ":",
              tools[i].function.parameters.properties, "}">>
         \o ReprTools(tools, i + 1)

ToolPrompt(tools) ==
    <<Instruction, " ", "[">> \o ReprTools(tools, 1) \o <<"]", " ", FormatAndReminder>>

IsSystem(message_dict) == DictGet(message_dict, K("role"), PNone) = W("system")

\* faulty variant, for sensitivity of the properties: the reminder is not added after a content
RECURSIVE MergeSystem_NoReminder(_, _, _)
MergeSystem_NoReminder(chat_messages, i, system_message) ==
    IF i > Len(chat_messages) THEN Return(system_message)
    ELSE IF ~IsSystem(chat_messages[i])
    THEN MergeSystem_NoReminder(chat_messages, i + 1, system_message)
    ELSE IF DictGet(chat_messages[i], K("content"), PNone).t # "str" THEN Raise("TypeError")
    ELSE MergeSystem_NoReminder(chat_messages, i + 1,
             system_message \o DictGet(chat_messages[i], K("content"), PNone).v)

\* the loop that merges the contents of the system messages: the str, or the
\* error of adding a content that is no str
RECURSIVE MergeSystem(_, _, _)
MergeSystem(chat_messages, i, system_message) ==
    IF i > Len(chat_messages) THEN Return(system_message)
    ELSE IF ~IsSystem(chat_messages[i])
    THEN MergeSystem(chat_messages, i + 1, system_message)
    ELSE IF DictGet(chat_messages[i], K("content"), PNone).t # "str" THEN Raise("TypeError")
    ELSE MergeSystem(chat_messages, i + 1,
             system_message \o DictGet(chat_messages[i], K("content"), PNone).v
             \o RoleReminder)

\* faulty variant, for sensitivity of the properties: tools and tool_choice stay in the keyword arguments
ToolsDispatch_KeepTools(merged, chat_messages, params2, kwargs) ==
    IF merged.raised THEN merged
    ELSE Return(
       [kwargs |-> With(kwargs, "params", params2),
        new_prompt |->
           <<RoleContent(W("system"), PStr(merged.v))>>
           \o SelectSeq(chat_messages, LAMBDA m : ~IsSystem(m))])

\* new_prompt and the keyword arguments of the tools branch
ToolsDispatch(merged, chat_messages, params2, kwargs) ==
    IF merged.raised THEN merged
    ELSE Return(
       [kwargs |-> With(Without(kwargs, {"tools", "tool_choice"}), "params", params2),
        new_prompt |->
           <<RoleContent(W("system"), PStr(merged.v))>>
           \o SelectSeq(chat_messages, LAMBDA m : ~IsSystem(m))])

WithTools(chat_messages, params2, kwargs) ==
    ToolsDispatch(MergeSystem(chat_messages, 1, <<>>), chat_messages, params2, kwargs)

\* _generate from the outcome of _create_message_dicts to the call of
\* watsonx_model.generate
DispatchMade(made, kwargs) ==
    IF made.raised THEN made
    ELSE IF Len(Get(kwargs, "tools", <<>>)) > 0
    THEN WithTools(Append(made.v.message_dicts,
                          RoleContent(W("system"), PStr(ToolPrompt(kwargs.tools)))),
                   made.v.params, kwargs)
    ELSE Return([kwargs |-> With(kwargs, "params", made.v.params), new_prompt |-> <<>>])

\* the messages and the keyword arguments that _generate hands to
\* watsonx_model.generate
Dispatch(self_params, messages, stop, kwargs) ==
    DispatchMade(_create_message_dicts(self_params, messages, stop, kwargs), kwargs)

(***************************************************************************)
(* Tool binding and structured output                                      *)
(***************************************************************************)
LlamaModel == "meta-llama/llama-3-1-70b-instruct"
GraniteModel == "ibm/granite-13b-chat-v2"
bind_tools_supported_models == {LlamaModel}

\* faulty variant, for sensitivity of the properties: every model may bind tools
SupportsBindTools_Any(self_model_id) == TRUE

\* the allow-list test of bind_tools
SupportsBindTools(self_model_id) == self_model_id \in bind_tools_supported_models

\* convert_to_openai_tool(schema)
convert_to_openai_tool(schema) ==
    [type |-> "function",
     function |-> [name |-> schema.name,
                   parameters |-> [properties |-> schema.properties],
                   description |-> schema.description]]

RECURSIVE FormatTools(_)
FormatTools(tools) ==
    IF Len(tools) = 0 THEN <<>>
    ELSE <<convert_to_openai_tool(tools[1])>> \o FormatTools(Tail(tools))

\* a runnable: the model with bound keyword arguments, and what follows it
Runnable(kwargs, parser, include_raw) ==
    [kwargs |-> kwargs, parser |-> parser, include_raw |-> include_raw]

\* bind_tools(tools, tool_choice=..., **kwargs)
bind_tools(self_model_id, tools, kwargs) ==
    IF ~SupportsBindTools(self_model_id) THEN Raise("Warning")
    ELSE Return(Runnable(With(kwargs, "tools", FormatTools(tools)), "none", FALSE))

NoKwargs == [k \in {} |-> 0]

\* the function_calling branch once the tool is bound
WithToolsParser(llm, schema, include_raw) ==
    IF llm.raised THEN llm
    ELSE Return(Runnable(llm.v.kwargs,
                         IF schema.kind = "pydantic" THEN "PydanticToolsParser"
                         ELSE "JsonOutputKeyToolsParser",
                         include_raw))

\* with_structured_output(schema, method=..., include_raw=..., **kwargs)
with_structured_output(self_model_id, schema, method, include_raw, kwargs) ==
    IF DOMAIN kwargs # {} THEN Raise("ValueError")
    ELSE IF method = "function_calling"
    THEN IF schema.kind = "none" THEN Raise("ValueError")
         ELSE WithToolsParser(bind_tools(self_model_id, <<schema>>, NoKwargs),
                              schema, include_raw)
    ELSE IF method = "json_mode"
    THEN Return(Runnable([response_format |-> "json_object"],
                         IF schema.kind = "pydantic" THEN "PydanticOutputParser"
                         ELSE "JsonOutputParser",
                         include_raw))
    ELSE Raise("ValueError")

\* faulty variant, for sensitivity of the properties: the parser runs without its fallback
ParseStep_NoFallback(raw, outcome) ==
    IF outcome.raised THEN outcome
    ELSE Return([raw |-> raw, parsed |-> outcome.v, parsing_error |-> PNone])

\* parser_assign.with_fallbacks([parser_none], exception_key="parsing_error")
\* on {"raw": raw}, the output parser ending with outcome
ParseStep(raw, outcome) ==
    IF outcome.raised
    THEN Return([raw |-> raw, parsed |-> PNone, parsing_error |-> outcome.v])
    ELSE Return([raw |-> raw, parsed |-> outcome.v, parsing_error |-> PNone])

\* what follows the model in the runnable, on the message the model returned
AfterModel(runnable, raw, outcome) ==
    IF runnable.parser = "none" THEN Return(raw)
    ELSE IF runnable.include_raw THEN ParseStep(raw, outcome)
    ELSE outcome

\* the runnable on the ChatResult of its model
InvokeResult(runnable, result, outcome) ==
    IF result.raised THEN result
    ELSE IF Len(result.v.generations) = 0 THEN Raise("IndexError")
    ELSE AfterModel(runnable, result.v.generations[1].message, outcome)

(***************************************************************************)
(* Message codec: streaming deltas                                         *)
(***************************************************************************)
\* a message chunk (langchain_core.messages), as the fields set here
Chunk(type, content) ==
    [type |-> type, content |-> content, additional_kwargs |-> PDict(<<>>),
     name |-> PNone, tool_call_id |-> PNone, role |-> PNone,
     id |-> W("sample_id"), tool_call_chunks |-> PList(<<>>)]

\* content: _dict.get("generated_text") or ""
DeltaContent(_dict) ==
    IF Truthy(DictGet(_dict, K("generated_text"), PNone))
    THEN DictGet(_dict, K("generated_text"), PNone)
    ELSE EmptyStr

\* dict(_dict["function_call"]) with a name of None replaced by ""
NamedCall(function_call) ==
    IF HasKey(function_call, K("name")) /\ DictGet(function_call, K("name"), PNone) = PNone
    THEN DictSet(function_call, K("name"), EmptyStr)
    ELSE function_call

\* additional_kwargs after the function_call test
WithFunctionCall(_dict) ==
    IF Truthy(DictGet(_dict, K("function_call"), PNone))
    THEN PDict(<< <<K("function_call"),
                    NamedCall(DictGet(_dict, K("function_call"), PNone))>> >>)
    ELSE PDict(<<>>)

\* additional_kwargs after the tool_calls test
DeltaKwargs(_dict) ==
    IF Truthy(DictGet(_dict, K("tool_calls"), PNone))
    THEN DictSet(WithFunctionCall(_dict), K("tool_calls"),
                 DictGet(_dict, K("tool_calls"), PNone))
    ELSE WithFunctionCall(_dict)

\* the tool call chunk of one raw tool call
ToolCallChunk(rtc) ==
    PDict(<< <<K("name"), DictGet(DictGet(rtc, K("function"), PNone), K("name"), PNone)>>,
             <<K("args"),
               DictGet(DictGet(rtc, K("function"), PNone), K("arguments"), PNone)>>,
             <<K("id"), DictGet(rtc, K("id"), PNone)>>,
             <<K("index"), DictGet(rtc, K("index"), PNone)>> >>)

\* the list comprehension over raw_tool_calls: the chunks, or the KeyError
\* of a raw tool call without function or without index
RECURSIVE ChunksFrom(_, _)
ChunksFrom(raw_tool_calls, i) ==
    IF i > Len(raw_tool_calls) THEN Return(<<>>)
    ELSE IF ~HasKey(raw_tool_calls[i], K("function")) THEN Raise("KeyError")
    ELSE IF DictGet(raw_tool_calls[i], K("function"), PNone).t # "dict"
    THEN Raise("AttributeError")   \* no get()
    ELSE IF ~HasKey(raw_tool_calls[i], K("index")) THEN Raise("KeyError")
    ELSE Joined(Return(<<ToolCallChunk(raw_tool_calls[i])>>),
                ChunksFrom(raw_tool_calls, i + 1))

\* try ... except KeyError: pass
ChunksOrNone(chunks) ==
    IF chunks = Raise("KeyError") THEN Return(<<>>) ELSE chunks

\* tool_call_chunks
DeltaChunks(_dict) ==
    IF Truthy(DictGet(_dict, K("tool_calls"), PNone))
    THEN ChunksOrNone(ChunksFrom(DictGet(_dict, K("tool_calls"), PNone).v, 1))
    ELSE Return(<<>>)

\* the classes a caller hands over as default_class; the last is a chunk
\* class of the caller's own
ChunkClasses ==
    {"HumanMessageChunk", "AIMessageChunk", "SystemMessageChunk",
     "FunctionMessageChunk", "ToolMessageChunk", "ChatMessageChunk",
     "CustomMessageChunk"}

\* the if/elif chain of _convert_delta_to_message_chunk
ChunkOfRole(_dict, role, default_class, content, additional_kwargs, chunks) ==
    IF role = W("user") \/ default_class = "HumanMessageChunk"
    THEN Return(Chunk("HumanMessageChunk", content))
    ELSE IF role = W("assistant") \/ default_class = "AIMessageChunk"
    THEN Return([Chunk("AIMessageChunk", content) EXCEPT
                    !.additional_kwargs = additional_kwargs,
                    !.tool_call_chunks = PList(chunks)])
    ELSE IF role = W("system") \/ default_class = "SystemMessageChunk"
    THEN Return(Chunk("SystemMessageChunk", content))
    ELSE IF role = W("function") \/ default_class = "FunctionMessageChunk"
    THEN IF ~HasKey(_dict, K("name")) THEN Raise("KeyError")
         ELSE Return([Chunk("FunctionMessageChunk", content) EXCEPT
                         !.name = DictGet(_dict, K("name"), PNone)])
    ELSE IF role = W("tool") \/ default_class = "ToolMessageChunk"
    THEN IF ~HasKey(_dict, K("tool_call_id")) THEN Raise("KeyError")
         ELSE Return([Chunk("ToolMessageChunk", content) EXCEPT
                         !.tool_call_id = DictGet(_dict, K("tool_call_id"), PNone)])
    ELSE IF Truthy(role) \/ default_class = "ChatMessageChunk"
    THEN \* ChatMessageChunk(role=None) is refused: role is a str
         IF role = PNone THEN Raise("ValidationError")
         ELSE Return([Chunk("ChatMessageChunk", content) EXCEPT !.role = role])
    ELSE Return(Chunk(default_class, content))

\* _convert_delta_to_message_chunk once tool_call_chunks is made
ChunkWith(_dict, default_class, chunks) ==
    IF chunks.raised THEN chunks
    ELSE ChunkOfRole(_dict, DictGet(_dict, K("role"), PNone), default_class,
                     DeltaContent(_dict), DeltaKwargs(_dict), chunks.v)

\* _convert_delta_to_message_chunk(_dict, default_class)
_convert_delta_to_message_chunk(_dict, default_class) ==
    ChunkWith(_dict, default_class, DeltaChunks(_dict))

(***************************************************************************)
(* Prompt templates                                                        *)
(***************************************************************************)
GraniteModels == {"ibm/granite-13b-chat-v1", GraniteModel}
Llama2Model == "meta-llama/llama-2-70b-chat"
Llama2Models == {"meta-llama/llama-2-13b-chat", Llama2Model}
Llama31Models == {LlamaModel}
\* a model_id of none of the dialects
OtherModel == "google/flan-ul2"

\* the text that each dialect puts before the content of a message
GranitePrefix(role) ==
    CASE role = W("system") -> <<"<|system|>", "\n">>
      [] role = W("assistant") -> <<"<|assistant|>", "\n">>
      [] role = W("function") -> <<"<|function|>", "\n">>
      [] role = W("tool") -> <<"<|tool|>", "\n">>
      [] OTHER -> <<"<|user|>", ":", "\n">>

Llama2Prefix(role) ==
    IF role = W("system") THEN <<"[INST]", " ", "<<SYS>>", "\n">> ELSE <<>>
Llama2Suffix(role) ==
    CASE role = W("system") -> <<"<</SYS>>", "\n", "\n">>
      [] role = W("assistant") -> <<"\n", "[INST]", "\n", "\n">>
      [] OTHER -> <<"\n", "[/INST]", "\n">>

\* str + content: the concatenation, or the TypeError of a content that is
\* no str
Concatenated(prefix, content, suffix) ==
    IF content.t # "str" THEN Raise("TypeError")
    ELSE Return(prefix \o content.v \o suffix)

\* a content inside an f-string: a str as it is, None as the word None
Formatted(content) ==
    CASE content.t = "str" -> content.v
      [] content.t = "none" -> <<"None">>

\* the f-string of the llama-3-1 dialect for one header word
Llama31Turn(header, content) ==
    <<"<|begin_of_text|>", "<|start_header_id|>">> \o header
    \o <<"<|end_header_id|>", "\n", " ">> \o Formatted(content)
    \o <<" ", "<|eot_id|>", "\n">>

\* the llama-3-1 branch for one message: for an assistant message the
\* concatenation is computed and dropped, nothing is added to the prompt
Llama31Part(role, content) ==
    CASE role = W("system") -> Llama31Turn(<<"system">>, content)
      [] role = W("assistant") -> <<>>
      [] role = W("tool_call") -> Llama31Turn(role.v, content)
      [] OTHER -> Llama31Turn(<<"user">>, content)

\* what one iteration of a loop of _create_chat_prompt adds to the prompt
PromptPart(dialect, message) ==
    IF ~HasKey(message, K("role")) \/ ~HasKey(message, K("content"))
    THEN Raise("KeyError")
    ELSE CASE dialect = "granite" ->
                Concatenated(GranitePrefix(DictGet(message, K("role"), PNone)),
                             DictGet(message, K("content"), PNone), <<"\n", "\n">>)
           [] dialect = "llama-2" ->
                Concatenated(Llama2Prefix(DictGet(message, K("role"), PNone)),
                             DictGet(message, K("content"), PNone),
                             Llama2Suffix(DictGet(message, K("role"), PNone)))
           [] dialect = "llama-3-1" ->
                Return(Llama31Part(DictGet(message, K("role"), PNone),
                                   DictGet(message, K("content"), PNone)))

\* a loop of _create_chat_prompt over messages
RECURSIVE PromptParts(_, _)
PromptParts(dialect, messages) ==
    IF Len(messages) = 0 THEN Return(<<>>)
    ELSE Joined(PromptPart(dialect, messages[1]), PromptParts(dialect, Tail(messages)))

\* prompt += ... after a loop
Followed(parts, marker) == IF parts.raised THEN parts ELSE Return(parts.v \o marker)

\* the word get_buffer_string writes for a message made of a dict with role
BufferRoles == {W("human"), W("user"), W("ai"), W("assistant"), W("system"),
                W("function"), W("tool")}
BufferRole(role) ==
    CASE role \in {W("human"), W("user")} -> "Human"
      [] role \in {W("ai"), W("assistant")} -> "AI"
      [] role = W("system") -> "System"
      [] role = W("function") -> "Function"
      [] role = W("tool") -> "Tool"

\* convert_to_messages and get_buffer_string on one dict: its line of the
\* text, or the error of a dict that makes no message
BufferLine(message) ==
    IF ~HasKey(message, K("role")) \/ ~HasKey(message, K("content"))
    THEN Raise("ValueError")
    ELSE IF DictGet(message, K("role"), PNone) \notin BufferRoles
    THEN Raise("ValueError")
    ELSE IF /\ DictGet(message, K("role"), PNone) = W("function")
            /\ ~HasKey(message, K("name"))
    THEN Raise("ValidationError")
    ELSE IF /\ DictGet(message, K("role"), PNone) = W("tool")
            /\ ~HasKey(message, K("tool_call_id"))
    THEN Raise("ValidationError")
    ELSE Return(<<BufferRole(DictGet(message, K("role"), PNone)), ":", " ">>
                \o (IF Truthy(DictGet(message, K("content"), PNone))
                    THEN Formatted(DictGet(message, K("content"), PNone))
                    ELSE <<>>)
                \o <<"\n">>)

\* the lines of the messages, each ended by the separator of the join
RECURSIVE BufferLines(_)
BufferLines(messages) ==
    IF Len(messages) = 0 THEN Return(<<>>)
    ELSE Joined(BufferLine(messages[1]), BufferLines(Tail(messages)))

\* the opening of the assistant turn in the granite and llama-3-1 dialects
AssistantMarker == <<"<|assistant|>", "\n">>
\* the line of AIMessage(content="") in the text of get_buffer_string
EmptyAITurn == <<"AI", ":", " ">>

\* the prompt of _create_chat_prompt as a sequence of lexemes
Rendered(self_model_id, messages) ==
    CASE self_model_id \in GraniteModels ->
           Followed(PromptParts("granite", messages), AssistantMarker)
      [] self_model_id \in Llama2Models -> PromptParts("llama-2", messages)
      [] self_model_id \in Llama31Models ->
           Followed(PromptParts("llama-3-1", messages), AssistantMarker)
      [] OTHER -> Followed(BufferLines(messages), EmptyAITurn)

AsStr(r) == IF r.raised THEN r ELSE Return(PStr(r.v))

\* _create_chat_prompt(messages)
_create_chat_prompt(self_model_id, messages) == AsStr(Rendered(self_model_id, messages))

(***************************************************************************)
(* Inputs: generated texts, as the provider may return them                *)
(***************************************************************************)
Lit(word) == <<Quote, word, Quote>>
Pair(key, valueText) == Lit(key) \o <<":">> \o valueText
Obj1(p1) == <<"{">> \o p1 \o <<"}">>
Obj2(p1, p2) == <<"{">> \o p1 \o <<",">> \o p2 \o <<"}">>
Obj3(p1, p2, p3) == <<"{">> \o p1 \o <<",">> \o p2 \o <<",">> \o p3 \o <<"}">>

QueryArgs(word) == Obj1(Pair("query", Lit(word)))
\* {"args":{"query":"q"},"name":"search"}
ToolCallText == Obj2(Pair("args", QueryArgs("q")), Pair("name", Lit("search")))
\* {"name": "x", "args": {"query": "hi"}, "id": "ok"}
ToolCallText2 ==
    Obj3(Pair("name", <<" ">> \o Lit("x")), Pair("args", QueryArgs("hi")),
         Pair("id", Lit("ok")))
\* the tool call as the content of a JSON string literal
ToolCallAsJsonString ==
    <<Quote, "{", EscQuote, "args", EscQuote, ":", "{", EscQuote, "query", EscQuote,
      ":", EscQuote, "q", EscQuote, "}", "}", Quote>>

\* {"name":"x","args":{},"id":"ok"}
ToolCallNoQuery ==
    Obj3(Pair("name", Lit("x")), Pair("args", <<"{", "}">>), Pair("id", Lit("ok")))

GeneratedTexts ==
    << ToolCallText,
       TagsToRemove \o ToolCallText,
       <<" ">> \o TagsToRemove \o <<"\n">> \o ToolCallText2 \o <<"\n">>,
       ToolCallText2,
       TagsToRemove \o ToolCallText2,
       Obj2(Pair("args", <<"{", "}">>), Pair("name", Lit("search"))),
       Obj1(Pair("name", Lit("search"))),
       Obj1(Pair("args", Lit("query"))),
       <<"[">> \o ToolCallText \o <<"]">>,
       <<"[">> \o ToolCallText \o <<",">> \o ToolCallText2 \o <<"]">>,
       <<"[", "1", "]">>,
       <<"[", "[">> \o ToolCallText \o <<"]", "]">>,
       Obj2(Pair("role", Lit("tool")), Pair("content", Lit("ok"))),
       Obj2(Pair("content", Lit("hi")), Pair("tool_calls", <<"[", "]">>)),
       ToolCallAsJsonString,
       <<"hi", " ", Emoji, "!", "\n", "ok", ",", " ", "x", ".", "-">>,
       <<Fence, "hi", "\n", Fence>>,
       <<Fence>> \o ToolCallText \o <<Fence>>,
       <<Fence, "json", "\n">> \o ToolCallText \o <<"\n", Fence>>,
       <<Fence, "[">> \o ToolCallText \o <<"]", Fence>>,
       <<"<|python_tag|>", "hi">>,
       <<"{">> \o TagsToRemove \o <<"}">>,
       ToolCallText \o <<"hi">>,
       <<"1", "2">>, <<"0">>, <<"0", "1">>, <<"-", "1", ".", "2">>, <<"-">>,
       <<"true">>, <<"false">>, <<"null">>, <<"[", "]">>, <<"{", "}">>,
       <<Quote, Quote>>, Lit("hi"), <<>>,
       <<"[", "1", ",", "]">>, <<Quote, "hi", "\n", Quote>>,
       Obj2(Pair("content", <<Quote, "hi", "!", Quote>>),
            Pair("tool_calls", <<"[">> \o ToolCallNoQuery \o <<"]">>))
    >>

\* uuid.uuid4().hex: some non-empty identifier
CallIds == {<<"uuid-a">>, <<"uuid-b">>}

(***************************************************************************)
(* Inputs: values, results, responses, messages, schemas                   *)
(***************************************************************************)
MaxResults == 2

\* the sequences of length n over the members of samples
RECURSIVE FromIndexes(_, _, _)
FromIndexes(samples, f, n) ==
    IF n = 0 THEN <<>> ELSE Append(FromIndexes(samples, f, n - 1), samples[f[n]])
SeqsOver(samples, n) ==
    {FromIndexes(samples, f, n) : f \in [1..n -> 1..Len(samples)]}

\* the values _is_valid_tool_call_format is given: a text as a str, or the
\* value it parses to
ToolValueOf(text, parsed, loaded) ==
    IF parsed /\ ~loaded.raised THEN loaded.v ELSE PStr(text)
ToolValue(i, parsed) ==
    ToolValueOf(GeneratedTexts[i], parsed, json_loads_str(GeneratedTexts[i]))

PlainText == <<"hi", " ", Emoji, "\n", Fence, "ok">>
ResultTexts ==
    << TagsToRemove \o ToolCallText, PlainText,
       Obj2(Pair("role", Lit("tool")), Pair("content", Lit("ok"))) >>
ResultCounts ==
    << [k \in {} |-> 0],
       [generated_token_count |-> 0, input_token_count |-> 0],
       [generated_token_count |-> 2],
       [stop_reason |-> W("eos_token"), generated_token_count |-> 1,
        input_token_count |-> 3] >>
ResultSamples ==
    LET n == Len(ResultCounts) IN
    [i \in 1..(Len(ResultTexts) * n) |->
        [generated_text |-> ResultTexts[((i - 1) \div n) + 1]]
        @@ ResultCounts[((i - 1) % n) + 1]]

\* the values of the error field of a response; the first stands for no field
ErrorValues == <<PNone, PNone, EmptyStr, W("boom")>>
Response(e, results) ==
    IF e = 1 THEN [results |-> results]
    ELSE [results |-> results, error |-> ErrorValues[e]]

\* what the collaborator answers to a generation call
CollaboratorResponses ==
    << [results |-> <<ResultSamples[4]>>, system_fingerprint |-> W("x")],
       [results |-> <<ResultSamples[5]>>],
       [results |-> <<>>],
       [results |-> <<ResultSamples[1]>>, error |-> W("boom")] >>

ToolCallValue == json_loads_str(ToolCallText).v
SampleMessages ==
    << SystemMessage(W("hi")),
       HumanMessage(W("q")),
       AIMessage(W("ok"), PList(<<>>)),
       AIMessage(EmptyStr, PList(<<DictSet(ToolCallValue, K("id"), W("x"))>>)),
       [AIMessage(EmptyStr, PList(<<>>)) EXCEPT
           !.additional_kwargs =
               PDict(<< <<K("function_call"), PDict(<< <<K("name"), W("search")>> >>)>> >>)],
       [AIMessage(EmptyStr, PList(<<>>)) EXCEPT
           !.additional_kwargs =
               PDict(<< <<K("tool_calls"), PList(<<ToolCallValue>>)>> >>)],
       [Message("FunctionMessage", W("ok")) EXCEPT !.name = W("search")],
       [Message("ToolMessage", W("ok")) EXCEPT !.tool_call_id = W("id")],
       [Message("ChatMessage", W("hi")) EXCEPT !.role = W("x")],
       [Message("ChatMessage", W("hi")) EXCEPT !.role = W("system")],
       [HumanMessage(W("q")) EXCEPT
           !.additional_kwargs = PDict(<< <<K("name"), W("x")>> >>)],
       SystemMessage(PList(<<W("hi")>>)),
       Message("BaseMessage", W("hi")) >>
SupportedTypes ==
    {"SystemMessage", "HumanMessage", "AIMessage", "FunctionMessage", "ToolMessage"}

MessageLists ==
    << <<>>,
       <<SampleMessages[2]>>,
       <<SampleMessages[1], SampleMessages[2]>>,
       <<SampleMessages[2], SampleMessages[3], SampleMessages[1], SampleMessages[10]>>,
       <<SampleMessages[2], SampleMessages[12]>>,
       <<SampleMessages[13]>>,
       <<SampleMessages[1], SampleMessages[2], SystemMessage(W("ok"))>> >>

\* the stop argument: None, or a list
StopValues == <<PNone, PList(<<>>), PList(<<W("x")>>)>>
\* self.params
DefaultParams ==
    << PNone,
       PDict(<< <<K("stop_sequences"), PList(<<W("q")>>)>> >>),
       PDict(<< <<K("temperature"), PNum(<<"1">>)>> >>) >>

Schemas ==
    << [name |-> "", description |-> "", properties |-> "", kind |-> "none"],
       [name |-> "search", description |-> "d1", properties |-> "p1", kind |-> "dict"],
       [name |-> "x", description |-> "d2", properties |-> "p2", kind |-> "pydantic"] >>
SearchTool == convert_to_openai_tool(Schemas[2])

\* the keyword arguments of a generation call
CallKwargs ==
    << NoKwargs,
       [params |-> PDict(<< <<K("stop_sequences"), PNone>> >>)],
       [params |-> PDict(<< <<K("temperature"), PNum(<<"2">>)>> >>)],
       [tools |-> <<SearchTool>>, tool_choice |-> "auto"],
       [params |-> PDict(<< <<K("temperature"), PNum(<<"2">>)>> >>),
        tools |-> <<SearchTool, convert_to_openai_tool(Schemas[3])>>],
       [tools |-> <<>>] >>

\* the outcome of an output parser on a message
ParserOutcomes == <<Return(W("ok")), Return(PNone), Raise("OutputParserException")>>

(***************************************************************************)
(* Inputs: streaming deltas                                                *)
(***************************************************************************)
Delta(role) == PDict(<< <<K("role"), role>>, <<K("generated_text"), W("hi")>> >>)
RawToolCall ==
    PDict(<< <<K("function"),
               PDict(<< <<K("name"), W("search")>>, <<K("arguments"), W("{")>> >>)>>,
             <<K("id"), W("id")>>,
             <<K("index"), PNum(<<"0">>)>> >>)

Deltas ==
    << PDict(<<>>),
       Delta(W("assistant")),
       Delta(W("user")),
       PDict(<< <<K("role"), W("system")>> >>),
       DictSet(Delta(W("function")), K("name"), W("search")),
       Delta(W("function")),
       DictSet(Delta(W("tool")), K("tool_call_id"), W("id")),
       Delta(W("x")),
       Delta(EmptyStr),
       PDict(<< <<K("role"), W("assistant")>>,
                <<K("tool_calls"), PList(<<RawToolCall>>)>> >>),
       PDict(<< <<K("role"), W("assistant")>>,
                <<K("tool_calls"), PList(<<RawToolCall, DictDel(RawToolCall, K("index"))>>)>> >>),
       PDict(<< <<K("function_call"),
                  PDict(<< <<K("name"), PNone>>, <<K("arguments"), EmptyStr>> >>)>> >>),
       PDict(<< <<K("generated_text"), W("ok")>>, <<K("name"), W("search")>>,
                <<K("tool_call_id"), W("id")>> >>) >>

(***************************************************************************)
(* Inputs: the message dicts of a prompt                                   *)
(***************************************************************************)
PromptLists ==
    << <<>>,
       <<RoleContent(W("user"), W("q"))>>,
       <<RoleContent(W("system"), W("hi")), RoleContent(W("user"), W("q"))>>,
       <<RoleContent(W("user"), W("q")), RoleContent(W("assistant"), W("ok"))>>,
       <<RoleContent(W("system"), W("hi")), RoleContent(W("user"), W("q")),
         RoleContent(W("assistant"), EmptyStr),
         DictSet(RoleContent(W("tool"), W("ok")), K("tool_call_id"), W("id")),
         DictSet(RoleContent(W("function"), W("x")), K("name"), W("search"))>>,
       <<RoleContent(W("user"), W("q")), RoleContent(W("tool_call"), W("x"))>>,
       <<RoleContent(W("user"), W("q")),
         DictSet(RoleContent(W("assistant"), PNone), K("tool_calls"),
                 PList(<<DictSet(ToolCallValue, K("id"), W("x"))>>))>>,
       <<RoleContent(W("x"), W("hi"))>>,
       <<PDict(<< <<K("content"), W("hi")>> >>)>>,
       <<RoleContent(W("tool"), W("ok"))>> >>

(***************************************************************************)
(* The state machine: a constructed ChatWatsonx and the calls made on it   *)
(***************************************************************************)
ModelIds == {LlamaModel, GraniteModel, Llama2Model, OtherModel}
NothingSent == [kwargs |-> NoKwargs, prompt |-> <<>>]

Init ==
    /\ model_id \in ModelIds
    /\ \E i \in 1..Len(DefaultParams) : params = DefaultParams[i]
    /\ generate_calls = 0
    /\ sent = NothingSent
    /\ op = "idle"
    /\ arg = PNone
    /\ ret = Return(PNone)

\* a call that does not reach the collaborator; calls are synchronous, one
\* at a time
Pure(name, a, r) ==
    /\ op = "idle"
    /\ op' = name
    /\ arg' = a
    /\ ret' = r
    /\ generate_calls' = 0
    /\ sent' = NothingSent
    /\ UNCHANGED <<model_id, params>>

IsValidToolCallFormatOn(tool) ==
    Pure("_is_valid_tool_call_format", tool,
         Return(PBool(_is_valid_tool_call_format(tool))))

CallIsValidToolCallFormat ==
    \E i \in 1..Len(GeneratedTexts), parsed \in BOOLEAN :
        IsValidToolCallFormatOn(ToolValue(i, parsed))

CallPostProcessing ==
    \E i \in 1..Len(GeneratedTexts), call_id \in CallIds :
        Pure("_post_processing",
             [call_id |-> call_id, _dict |-> [generated_text |-> GeneratedTexts[i]]],
             _post_processing([generated_text |-> GeneratedTexts[i]], call_id))

CreateChatResultOn(response, call_id) ==
    Pure("_create_chat_result", [call_id |-> call_id, response |-> response],
         _create_chat_result(model_id, response, call_id))

CallCreateChatResult ==
    /\ op = "idle"
    /\ \E e \in 1..Len(ErrorValues), n \in 0..MaxResults, call_id \in CallIds :
          \E results \in SeqsOver(ResultSamples, n) :
              CreateChatResultOn(Response(e, results), call_id)

CallConvertMessageToDict ==
    \E i \in 1..Len(SampleMessages) :
        Pure("_convert_message_to_dict", SampleMessages[i],
             _convert_message_to_dict(SampleMessages[i]))

\* the list that a call returns
Listing(r) == IF r.raised THEN r ELSE Return(PList(r.v))

ConvertDictToMessageOn(message, messages) ==
    Pure("_convert_dict_to_message", [messages |-> PList(messages), of |-> message],
         Listing(_convert_dict_to_message(messages)))

ConvertBack(message, d, dumped) ==
    /\ ~d.raised
    /\ ConvertDictToMessageOn(message, <<IF dumped THEN PStr(json_dumps(d.v)) ELSE d.v>>)

\* _convert_dict_to_message on the dict that _convert_message_to_dict made of
\* a message, or on the JSON text of that dict
CallConvertDictToMessage ==
    \E i \in 1..Len(SampleMessages), dumped \in BOOLEAN :
        ConvertBack(SampleMessages[i], _convert_message_to_dict(SampleMessages[i]), dumped)

CallConvertDeltaToMessageChunk ==
    \E i \in 1..Len(Deltas), default_class \in ChunkClasses :
        Pure("_convert_delta_to_message_chunk",
             [_dict |-> Deltas[i], default_class |-> default_class],
             _convert_delta_to_message_chunk(Deltas[i], default_class))

CallCreateChatPrompt ==
    \E i \in 1..Len(PromptLists) :
        Pure("_create_chat_prompt", [messages |-> PList(PromptLists[i])],
             _create_chat_prompt(model_id, PromptLists[i]))

CallBindTools ==
    \E i \in 2..Len(Schemas), choice \in {"none", "auto"} :
        Pure("bind_tools",
             [tools |-> <<Schemas[i]>>, tool_choice |-> choice],
             bind_tools(model_id, <<Schemas[i]>>, NoKwargs))

CallWithStructuredOutput ==
    \E i \in 1..Len(Schemas), method \in {"function_calling", "json_mode", "json_format"},
       include_raw \in BOOLEAN, kwargs \in {NoKwargs, [strict |-> TRUE]} :
        Pure("with_structured_output",
             [kwargs |-> kwargs, schema |-> Schemas[i], include_raw |-> include_raw,
              method |-> method],
             with_structured_output(model_id, Schemas[i], method, include_raw, kwargs))

\* _generate up to its return: d is what it hands to the collaborator, or
\* the error raised before that, and result what it makes of the answer
Generated(name, a, d, result) ==
    /\ op' = name
    /\ arg' = a
    /\ UNCHANGED <<model_id, params>>
    /\ generate_calls' = IF d.raised THEN 0 ELSE 1
    /\ sent' = IF d.raised THEN NothingSent
               ELSE [kwargs |-> d.v.kwargs, prompt |-> json_dumps(PList(d.v.new_prompt))]
    /\ ret' = IF d.raised THEN d ELSE result

CallGenerate ==
    /\ op = "idle"
    /\ \E m \in 1..Len(MessageLists), s \in 1..Len(StopValues), k \in 1..Len(CallKwargs),
          r \in 1..Len(CollaboratorResponses), call_id \in CallIds :
        Generated("_generate",
                  [messages |-> MessageLists[m], kwargs |-> CallKwargs[k],
                   stop |-> StopValues[s]],
                  Dispatch(params, MessageLists[m], StopValues[s], CallKwargs[k]),
                  _create_chat_result(model_id, CollaboratorResponses[r], call_id))

\* the caller is done with the outcome of its call
ReturnToCaller ==
    /\ op # "idle"
    /\ op' = "idle"
    /\ arg' = PNone
    /\ ret' = Return(PNone)
    /\ generate_calls' = 0
    /\ sent' = NothingSent
    /\ UNCHANGED <<model_id, params>>

\* the runnable that bind_tools or with_structured_output has just returned,
\* invoked on messages
InvokeRunnable ==
    /\ op \in {"bind_tools", "with_structured_output"}
    /\ ~ret.raised
    /\ \E m \in 1..Len(MessageLists), r \in 1..Len(CollaboratorResponses),
          o \in 1..Len(ParserOutcomes), call_id \in CallIds :
        Generated("invoke",
                  [messages |-> MessageLists[m], outcome |-> ParserOutcomes[o],
                   runnable |-> ret.v],
                  Dispatch(params, MessageLists[m], PNone, ret.v.kwargs),
                  InvokeResult(ret.v,
                               _create_chat_result(model_id, CollaboratorResponses[r], call_id),
                               ParserOutcomes[o]))

Next ==
    \/ CallIsValidToolCallFormat
    \/ CallPostProcessing
    \/ CallCreateChatResult
    \/ CallConvertMessageToDict
    \/ CallConvertDictToMessage
    \/ CallConvertDeltaToMessageChunk
    \/ CallCreateChatPrompt
    \/ CallBindTools
    \/ CallWithStructuredOutput
    \/ CallGenerate
    \/ InvokeRunnable
    \/ ReturnToCaller

Spec == Init /\ [][Next]_vars

(***************************************************************************)
(* Properties: the error field of a response                               *)
(***************************************************************************)
\* C1 as stated: a response passed to _create_chat_result that has an error
\* key, whatever the value of the key and whatever results holds, makes the
\* call raise
C1_ErrorKeyAlwaysRaises ==
    (op = "_create_chat_result" /\ "error" \in DOMAIN arg.response) => ret.raised

\* C1: a response passed to _create_chat_result whose error key holds a truthy
\* value (not None, not the empty str) makes the call raise ValueError and
\* return no ChatResult, whatever results holds
C1_TruthyErrorRaises ==
    (/\ op = "_create_chat_result"
     /\ "error" \in DOMAIN arg.response
     /\ Truthy(arg.response.error))
    => ret = Raise("ValueError")

\* a response with an error and two results has been refused
C1_Witness ==
    /\ op = "_create_chat_result"
    /\ "error" \in DOMAIN arg.response
    /\ Truthy(arg.response.error)
    /\ Len(arg.response.results) = 2
    /\ ret = Raise("ValueError")

(***************************************************************************)
(* Properties: tool binding                                                *)
(***************************************************************************)
\* C2: for a model_id outside the allow-list, bind_tools, and
\* with_structured_output with method function_calling, end with an error,
\* and watsonx_model.generate has not been invoked by the call
C2_UnsupportedModelFailsBeforeGenerate ==
    (/\ model_id \notin bind_tools_supported_models
     /\ \/ op = "bind_tools"
        \/ op = "with_structured_output" /\ arg.method = "function_calling")
    => (ret.raised /\ generate_calls = 0 /\ sent = NothingSent)

\* with_structured_output has reached bind_tools on an unsupported model
C2_Witness ==
    /\ model_id = GraniteModel
    /\ op = "with_structured_output"
    /\ arg.method = "function_calling"
    /\ arg.schema.kind = "pydantic"
    /\ DOMAIN arg.kwargs = {}
    /\ ret = Raise("Warning")
    /\ generate_calls = 0

(***************************************************************************)
(* Properties: the tool-call shape                                         *)
(***************************************************************************)
\* a one-element list replaced by its single element
SingleElement(v) == IF v.t = "list" /\ Len(v.v) = 1 THEN v.v[1] ELSE v

\* a mapping whose args value is a mapping that contains the key query
MappingWithQueryArgs(u) ==
    /\ u.t = "dict"
    /\ \E i \in 1..Len(u.v) :
          /\ u.v[i][1] = <<"args">>
          /\ u.v[i][2].t = "dict"
          /\ \E j \in 1..Len(u.v[i][2].v) : u.v[i][2].v[j][1] = <<"query">>

HasToolCallShape(v) == MappingWithQueryArgs(SingleElement(v))

\* C3 as stated: _is_valid_tool_call_format(v) is true iff v, a one-element
\* list replaced by its element, is a mapping whose args is a mapping that
\* contains the key query
C3_ValidIffShape ==
    op = "_is_valid_tool_call_format" => (ret.v.v <=> HasToolCallShape(arg))

\* C3: _is_valid_tool_call_format(v) is true iff v, decoded as JSON when it is
\* a str (false when it does not decode) and then a one-element list replaced
\* by its element, is a mapping whose args is a mapping that contains the key
\* query; so it is false for an empty args, a missing args and a list of two
\* or more elements
C3_ValidIffDecodedShape ==
    op = "_is_valid_tool_call_format" =>
        (ret.v.v <=> IF arg.t = "str"
                     THEN /\ ~json_loads(arg).raised
                          /\ HasToolCallShape(json_loads(arg).v)
                     ELSE HasToolCallShape(arg))

\* a one-element list that wraps a valid dict has been accepted
C3_Witness ==
    /\ op = "_is_valid_tool_call_format"
    /\ arg.t = "list"
    /\ Len(arg.v) = 1
    /\ ret = Return(PBool(TRUE))

(***************************************************************************)
(* Properties: classification of the generated text                        *)
(***************************************************************************)
\* the text that follows the control tokens
AfterTags(text) == SubSeq(text, Len(TagsToRemove) + 1, Len(text))

\* the control tokens followed by a JSON object with a name and an args
\* mapping that contains query
TaggedToolCall(text) ==
    /\ StartsWithAt(text, 1, TagsToRemove)
    /\ ~json_loads_str(AfterTags(text)).raised
    /\ MappingWithQueryArgs(json_loads_str(AfterTags(text)).v)
    /\ HasKey(json_loads_str(AfterTags(text)).v, <<"name">>)

SameNameAndArgs(call, object) ==
    /\ DictGet(call, <<"name">>, PNone) = DictGet(object, <<"name">>, PNone)
    /\ DictGet(call, <<"args">>, PNone) = DictGet(object, <<"args">>, PNone)

\* C4: for the control tokens followed by a JSON object with a name and an
\* args mapping that contains query, _post_processing returns an AIMessage
\* with empty content and exactly one tool call, with the name and the args of
\* the object and with the non-empty call id of the response as its id
C4_TaggedJsonIsOneToolCall ==
    (op = "_post_processing" /\ TaggedToolCall(arg._dict.generated_text)) =>
        /\ ~ret.raised
        /\ ret.v.type = "AIMessage"
        /\ ret.v.content = EmptyStr
        /\ ret.v.tool_calls.t = "list"
        /\ Len(ret.v.tool_calls.v) = 1
        /\ SameNameAndArgs(ret.v.tool_calls.v[1],
                           json_loads_str(AfterTags(arg._dict.generated_text)).v)
        /\ DictGet(ret.v.tool_calls.v[1], <<"id">>, PNone) = PStr(arg.call_id)
        /\ Len(arg.call_id) > 0

\* the text of the example has been classified
C4_Witness ==
    /\ op = "_post_processing"
    /\ arg._dict.generated_text = TagsToRemove \o ToolCallText
    /\ ~ret.raised
    /\ Len(ret.v.tool_calls.v) = 1
    /\ DictGet(ret.v.tool_calls.v[1], <<"name">>, PNone) = W("search")

(***************************************************************************)
(* Properties: token usage                                                 *)
(***************************************************************************)
\* the count of a result, 0 when the result does not give it
CountOf(res, key) == IF key \in DOMAIN res THEN res[key] ELSE 0

\* the sum of a count over the first i results
RECURSIVE SumTo(_, _, _)
SumTo(results, key, i) ==
    IF i = 0 THEN 0 ELSE SumTo(results, key, i - 1) + CountOf(results[i], key)

InputTo(results, i) == SumTo(results, "input_token_count", i)
OutputTo(results, i) == SumTo(results, "generated_token_count", i)

\* the usage metadata of generation i is that of the first i results, and is
\* there only when their total is not zero
CumulativeAt(results, generations, i) ==
    generations[i].message.usage_metadata =
        IF InputTo(results, i) + OutputTo(results, i) # 0
        THEN [input_tokens |-> InputTo(results, i),
              output_tokens |-> OutputTo(results, i),
              total_tokens |-> InputTo(results, i) + OutputTo(results, i)]
        ELSE PNone

\* the totals that two generations carry do not decrease from the earlier to
\* the later one
NotDecreasing(generations, i, j) ==
    (/\ generations[i].message.usage_metadata # PNone
     /\ generations[j].message.usage_metadata # PNone)
    => /\ generations[i].message.usage_metadata.input_tokens
             <= generations[j].message.usage_metadata.input_tokens
       /\ generations[i].message.usage_metadata.output_tokens
             <= generations[j].message.usage_metadata.output_tokens

\* the totals of the last generation are the aggregate of the ChatResult
LastIsAggregate(generations, token_usage) ==
    (/\ Len(generations) > 0
     /\ generations[Len(generations)].message.usage_metadata # PNone)
    => /\ generations[Len(generations)].message.usage_metadata.input_tokens
             = token_usage.input_token_count
       /\ generations[Len(generations)].message.usage_metadata.output_tokens
             = token_usage.generated_token_count

UsageIsCumulative(results, result) ==
    /\ Len(result.generations) = Len(results)
    /\ \A i \in 1..Len(results) :
          /\ CumulativeAt(results, result.generations, i)
          /\ InputTo(results, i - 1) <= InputTo(results, i)
          /\ OutputTo(results, i - 1) <= OutputTo(results, i)
          /\ \A j \in i..Len(results) : NotDecreasing(result.generations, i, j)
    /\ result.llm_output.token_usage =
          [generated_token_count |-> OutputTo(results, Len(results)),
           input_token_count |-> InputTo(results, Len(results))]
    /\ LastIsAggregate(result.generations, result.llm_output.token_usage)

\* C5: in a ChatResult of _create_chat_result the running input and output
\* totals never decrease from one result to the next (an absent count is 0),
\* the usage metadata of generation i is the sum over the results up to i, it
\* is attached only when that running total is not zero, and the totals of the
\* last generation are the aggregate token_usage
C5_UsageIsCumulative ==
    (op = "_create_chat_result" /\ ~ret.raised) =>
        UsageIsCumulative(arg.response.results, ret.v)

\* two results with counts: the second generation carries more than its own
C5_Witness ==
    /\ op = "_create_chat_result"
    /\ ~ret.raised
    /\ Len(ret.v.generations) = 2
    /\ CountOf(arg.response.results[1], "input_token_count") = 3
    /\ CountOf(arg.response.results[2], "generated_token_count") = 2
    /\ "input_token_count" \notin DOMAIN arg.response.results[2]
    /\ ret.v.generations[2].message.usage_metadata
          = [input_tokens |-> 3, output_tokens |-> 3, total_tokens |-> 6]

(***************************************************************************)
(* Properties: the round trip of the message codec                         *)
(***************************************************************************)
\* the message that came back has the role and the content of the one sent,
\* the tool_call_id of a tool message and the name of a function message
SameMessage(back, message) ==
    /\ back.type = message.type
    /\ back.content = message.content
    /\ message.type = "ToolMessage" => back.tool_call_id = message.tool_call_id
    /\ message.type = "FunctionMessage" => back.name = message.name

\* C6: for a message of a supported role, _convert_dict_to_message on what
\* _convert_message_to_dict returns does not raise, and returns a message
\* with the same role and content, with the tool_call_id of a tool message and
\* the name of a function message
C6_RoundTrip ==
    (op = "_convert_dict_to_message" /\ arg.of.type \in SupportedTypes) =>
        /\ ~ret.raised
        /\ Len(ret.v.v) = 1
        /\ SameMessage(ret.v.v[1], arg.of)

(***************************************************************************)
(* Properties: the ids of the tool calls of a ChatResult                   *)
(***************************************************************************)
\* the ids of the tool calls of the generations from i on, in order
RECURSIVE IdsOfCalls(_)
IdsOfCalls(calls) ==
    IF Len(calls) = 0 THEN <<>>
    ELSE <<DictGet(calls[1], <<"id">>, PNone)>> \o IdsOfCalls(Tail(calls))
RECURSIVE IdsFrom(_, _)
IdsFrom(generations, i) ==
    IF i > Len(generations) THEN <<>>
    ELSE IdsOfCalls(generations[i].message.tool_calls.v) \o IdsFrom(generations, i + 1)

NoTwoEqual(ids) == \A i, j \in 1..Len(ids) : ids[i] = ids[j] => i = j

\* C7 as stated: in a ChatResult of _create_chat_result, over all
\* generations and all tool calls of each message, no two tool calls carry
\* the same id
C7_IdsUnique ==
    (op = "_create_chat_result" /\ ~ret.raised) =>
        NoTwoEqual(IdsFrom(ret.v.generations, 1))

\* the cleaned text of a result has the tool-call shape
ResultHasToolCallShape(res) ==
    /\ ~json_loads_str(Strip(RemoveAll(res.generated_text, TagsToRemove))).raised
    /\ HasToolCallShape(
          json_loads_str(Strip(RemoveAll(res.generated_text, TagsToRemove))).v)

\* the message carries one tool call, with this id
OneCallWithId(message, id) ==
    /\ Len(message.tool_calls.v) = 1
    /\ DictGet(message.tool_calls.v[1], <<"id">>, PNone) = id

\* C7: in a ChatResult of _create_chat_result, the message made of a result
\* whose text has the tool-call shape carries exactly one tool call, and its
\* id is the one call id of the response: ids do not repeat within a message,
\* and the tool calls of different generations share their id
C7_OneIdPerResponse ==
    (op = "_create_chat_result" /\ ~ret.raised) =>
        \A i \in 1..Len(ret.v.generations) :
            ResultHasToolCallShape(arg.response.results[i]) =>
                OneCallWithId(ret.v.generations[i].message, PStr(arg.call_id))

\* a ChatResult with two generations that carry a tool call each
C7_Witness ==
    /\ op = "_create_chat_result"
    /\ ~ret.raised
    /\ Len(ret.v.generations) = 2
    /\ Len(IdsFrom(ret.v.generations, 1)) = 2

(***************************************************************************)
(* Properties: stop and stop_sequences                                     *)
(***************************************************************************)
\* the effective params of the call in arg: the defaults of the model merged
\* with the params of the call
Effective == EffectiveParams(params, arg.kwargs)

\* the call ended with an error before watsonx_model.generate was invoked
FailedAtEntry(exc) == ret = Raise(exc) /\ generate_calls = 0 /\ sent = NothingSent

\* watsonx_model.generate was invoked with this value of stop_sequences
SentStopSequences(val) ==
    /\ generate_calls = 1
    /\ "params" \in DOMAIN sent.kwargs
    /\ HasKey(sent.kwargs.params, <<"stop_sequences">>)
    /\ DictGet(sent.kwargs.params, <<"stop_sequences">>, PNone) = val

\* C8: a generation call with stop, when stop_sequences is in the effective
\* params, ends with ValueError before watsonx_model.generate is invoked; with
\* only one of the two, no such error is raised and the params handed to
\* watsonx_model.generate carry that one as stop_sequences (unless a message
\* of an unknown type ends the call with TypeError)
C8_StopConflict ==
    op = "_generate" =>
        /\ (arg.stop # PNone /\ HasKey(Effective, <<"stop_sequences">>))
              => FailedAtEntry("ValueError")
        /\ (arg.stop # PNone /\ ~HasKey(Effective, <<"stop_sequences">>))
              => (SentStopSequences(arg.stop) \/ FailedAtEntry("TypeError"))
        /\ (arg.stop = PNone /\ HasKey(Effective, <<"stop_sequences">>))
              => \/ SentStopSequences(DictGet(Effective, <<"stop_sequences">>, PNone))
                 \/ FailedAtEntry("TypeError")

\* stop was given to a model whose default params hold stop_sequences
C8_Witness ==
    /\ op = "_generate"
    /\ arg.stop = PList(<<W("x")>>)
    /\ params.t = "dict"
    /\ HasKey(params, <<"stop_sequences">>)
    /\ "params" \notin DOMAIN arg.kwargs
    /\ FailedAtEntry("ValueError")

(***************************************************************************)
(* Properties: include_raw                                                 *)
(***************************************************************************)
\* the output parser ran on the message of the model and failed
ParserFailed == arg.outcome.raised

\* C9: with include_raw, the runnable of with_structured_output never ends
\* with the failure of the output parser; what it returns for a response of
\* the model is a mapping with the raw message, where a parser failure gives
\* parsed None and the failure as parsing_error, and a parser success gives
\* its output as parsed and parsing_error None
C9_IncludeRaw ==
    (/\ op = "invoke"
     /\ arg.runnable.parser # "none"
     /\ arg.runnable.include_raw
     /\ generate_calls = 1)
    => IF ret.raised
       THEN ~(ParserFailed /\ ret = arg.outcome)
       ELSE /\ DOMAIN ret.v = {"raw", "parsed", "parsing_error"}
            /\ ret.v.raw.type = "AIMessage"
            /\ ParserFailed => (/\ ret.v.parsed = PNone
                                /\ ret.v.parsing_error = arg.outcome.v
                                /\ ret.v.parsing_error # PNone)
            /\ ~ParserFailed => (/\ ret.v.parsed = arg.outcome.v
                                 /\ ret.v.parsing_error = PNone)

\* the parser failed on a message of the model and the caller has both the
\* raw message and the failure
C9_Witness ==
    /\ op = "invoke"
    /\ arg.runnable.parser = "PydanticToolsParser"
    /\ arg.runnable.include_raw
    /\ generate_calls = 1
    /\ ParserFailed
    /\ ~ret.raised
    /\ ret.v.parsed = PNone
    /\ ret.v.parsing_error = PException("OutputParserException")
    /\ Len(ret.v.raw.tool_calls.v) = 1

(***************************************************************************)
(* Properties: text that is no JSON                                        *)
(***************************************************************************)
\* the text without the control tokens and the surrounding whitespace
Cleaned(text) == Strip(RemoveAll(text, TagsToRemove))

NotJson(text) == json_loads_str(Cleaned(text)).raised

\* the lexemes made of characters of the class A-Z a-z 0-9 whitespace , . -
\* only, the line feed left out
AllowedAtoms == (AlnumWords \cup Digits \cup {" ", ",", ".", "-"})
                \cup {"python", "tag", "start", "header", "end", "calls", "n"}

\* the content holds allowed characters only, in the order of the text
OnlyAllowed(content, text) ==
    /\ content.t = "str"
    /\ \A i \in 1..Len(content.v) : content.v[i] \in AllowedAtoms
    /\ content.v = KeepMatches(RemoveAll(Cleaned(text), <<"\n">>))

PlainMessage(r, text) ==
    /\ ~r.raised
    /\ r.v.type = "AIMessage"
    /\ r.v.tool_calls = PList(<<>>)
    /\ OnlyAllowed(r.v.content, text)

\* C10 as stated: for a generated text that is no JSON, _post_processing
\* returns a message without tool calls whose content holds only the
\* characters of the class, in their order, without line feeds, fences and
\* other characters
C10_NonJsonIsPlain ==
    (op = "_post_processing" /\ NotJson(arg._dict.generated_text)) =>
        PlainMessage(ret, arg._dict.generated_text)

\* the text, its fences removed, decodes to a value of the tool-call shape
FencedToolCall(text) ==
    /\ ~json_loads_str(RemoveAll(Cleaned(text), <<Fence>>)).raised
    /\ HasToolCallShape(json_loads_str(RemoveAll(Cleaned(text), <<Fence>>)).v)

\* C10: for a generated text that is no JSON and that does not decode to the
\* tool-call shape once its fences are removed, _post_processing returns a
\* message without tool calls whose content holds only the characters of the
\* class, in their order, without line feeds, fences and other characters
C10_NonJsonUnfencedIsPlain ==
    (/\ op = "_post_processing"
     /\ NotJson(arg._dict.generated_text)
     /\ ~FencedToolCall(arg._dict.generated_text))
    => PlainMessage(ret, arg._dict.generated_text)

\* a text with an emoji and a line feed has been filtered
C10_Witness ==
    /\ op = "_post_processing"
    /\ NotJson(arg._dict.generated_text)
    /\ \E i \in 1..Len(arg._dict.generated_text) : arg._dict.generated_text[i] = Emoji
    /\ \E i \in 1..Len(arg._dict.generated_text) : arg._dict.generated_text[i] = "\n"
    /\ ret = Return(AIMessage(PStr(<<"hi", " ", "ok", ",", " ", "x", ".", "-">>),
                              PList(<<>>)))

(***************************************************************************)
(* Properties: the messages handed to the collaborator                     *)
(***************************************************************************)
\* the generation call in arg carried tools
ToolsRequested == Len(Get(arg.kwargs, "tools", <<>>)) > 0

\* the dicts that the input messages of the call convert to
ConvertedInput == ConvertAll(arg.messages).v

\* the list of message dicts that the prompt handed to watsonx_model.generate
\* is the JSON text of
SentMessages == json_loads_str(sent.prompt).v.v

\* C11: a generation call without tools that reaches watsonx_model.generate
\* hands it a prompt that holds the converted input messages, all of them
\* and nothing else, in the order of the input
C11_NoToolsPassThrough ==
    (op = "_generate" /\ ~ToolsRequested /\ generate_calls = 1) =>
        sent.prompt = json_dumps(PList(ConvertedInput))

\* the contents of the system messages among dicts, in their order, each
\* followed by the reminder sentence
RECURSIVE SystemContents(_)
SystemContents(dicts) ==
    IF Len(dicts) = 0 THEN <<>>
    ELSE (IF IsSystem(dicts[1])
          THEN DictGet(dicts[1], <<"content">>, PNone).v \o RoleReminder
          ELSE <<>>)
         \o SystemContents(Tail(dicts))

\* the content of the tool instruction of the call, followed by the reminder
InstructionPart == ToolPrompt(arg.kwargs.tools) \o RoleReminder

\* the content of the merged system message of the prompt
MergedContent == DictGet(SentMessages[1], <<"content">>, PNone).v

\* a generation call with tools has reached watsonx_model.generate
ToolsDispatched == op = "_generate" /\ ToolsRequested /\ generate_calls = 1

\* C14 as stated: with tools, the content of the merged system message is
\* the tool instruction and the reminder, followed by the contents of the
\* system messages of the caller in their order, each followed by the
\* reminder
C14_InstructionFirst ==
    ToolsDispatched =>
        MergedContent = InstructionPart \o SystemContents(ConvertedInput)

\* C14: with tools, the content of the merged system message is the contents
\* of the system messages of the caller in their order, each followed by the
\* reminder, followed by the tool instruction and the reminder
C14_InstructionLast ==
    ToolsDispatched =>
        MergedContent = SystemContents(ConvertedInput) \o InstructionPart

\* two system messages of the caller with different contents were merged
\* with the tool instruction
C14_Witness ==
    /\ ToolsDispatched
    /\ Len(SelectSeq(ConvertedInput, IsSystem)) = 2
    /\ MergedContent = <<"hi">> \o RoleReminder \o <<"ok">> \o RoleReminder
                       \o InstructionPart

IsNotSystem(message_dict) == ~IsSystem(message_dict)

\* C15: with tools, the messages handed to watsonx_model.generate are one
\* system message followed by the input messages that are no system
\* messages, each once and in their order, and neither tools nor tool_choice
\* is among the keyword arguments handed over
C15_OneSystemFirstToolsStripped ==
    ToolsDispatched =>
        /\ Len(SentMessages) = 1 + Len(SelectSeq(ConvertedInput, IsNotSystem))
        /\ IsSystem(SentMessages[1])
        /\ Tail(SentMessages) = SelectSeq(ConvertedInput, IsNotSystem)
        /\ \A i \in 2..Len(SentMessages) : ~IsSystem(SentMessages[i])
        /\ "tools" \notin DOMAIN sent.kwargs
        /\ "tool_choice" \notin DOMAIN sent.kwargs

\* a call with tools and tool_choice, two system messages and two other
\* messages has reached watsonx_model.generate
C15_Witness ==
    /\ ToolsDispatched
    /\ "tool_choice" \in DOMAIN arg.kwargs
    /\ Len(arg.messages) = 4
    /\ Len(SentMessages) = 3
    /\ DOMAIN sent.kwargs = {"params"}

(***************************************************************************)
(* Properties: classification of JSON values                               *)
(***************************************************************************)
\* what the text of the call parses to, once the control tokens and the
\* surrounding whitespace are removed
ParsedText == json_loads_str(Cleaned(arg._dict.generated_text))

\* the text parses to a list of one mapping of the tool-call shape
WrappedToolCall ==
    /\ ~ParsedText.raised
    /\ ParsedText.v.t = "list"
    /\ Len(ParsedText.v.v) = 1
    /\ MappingWithQueryArgs(ParsedText.v.v[1])

\* C12: for a text that parses to a list of one mapping of the tool-call
\* shape, _post_processing does not raise and returns an assistant message
\* with empty content whose tool_calls hold that one mapping with the call
\* identifier as its id
C12_WrappedListIsOneToolCall ==
    (op = "_post_processing" /\ WrappedToolCall) =>
        ret = Return(AIMessage(EmptyStr,
                  PList(<<DictSet(ParsedText.v.v[1], <<"id">>, PStr(arg.call_id))>>)))

\* C13: for a text that is no JSON, or that is JSON of any kind without the
\* tool-call shape, _post_processing does not raise and returns an assistant
\* message
C13_NeverFails ==
    (/\ op = "_post_processing"
     /\ (ParsedText.raised \/ ~HasToolCallShape(ParsedText.v)))
    => (~ret.raised /\ ret.v.type = "AIMessage")

\* the text parses to a JSON object without the tool-call shape
ObjectWithoutShape ==
    /\ ~ParsedText.raised
    /\ ParsedText.v.t = "dict"
    /\ ~MappingWithQueryArgs(ParsedText.v)

\* C19: for a text that parses to a JSON object without the tool-call shape,
\* _post_processing returns an assistant message whose content is the content
\* of the object, unfiltered, or the empty str when the object has none, and
\* whose tool_calls are the tool_calls of the object, without the call
\* identifier, or empty when the object has none
C19_ObjectFieldsVerbatim ==
    (op = "_post_processing" /\ ObjectWithoutShape) =>
        ret = Return(AIMessage(DictGet(ParsedText.v, <<"content">>, EmptyStr),
                               DictGet(ParsedText.v, <<"tool_calls">>, PList(<<>>))))

\* an object with a content that filtering would change and with a tool call
\* of its own has been classified
C19_Witness ==
    /\ op = "_post_processing"
    /\ ObjectWithoutShape
    /\ ~ret.raised
    /\ ret.v.content = PStr(<<"hi", "!">>)
    /\ Len(ret.v.tool_calls.v) = 1
    /\ DictGet(ret.v.tool_calls.v[1], <<"id">>, PNone) = W("ok")

(***************************************************************************)
(* Properties: the content of an assistant message without text            *)
(***************************************************************************)
\* the message carries a function call or a tool call, in additional_kwargs
\* or in its tool_calls field
CarriesCall(message) ==
    \/ HasKey(message.additional_kwargs, <<"function_call">>)
    \/ HasKey(message.additional_kwargs, <<"tool_calls">>)
    \/ Len(message.tool_calls.v) > 0

\* C16: for an AIMessage with content "" that carries a function call or a
\* tool call, in additional_kwargs or in tool_calls, the dict that
\* _convert_message_to_dict returns has content None; for an AIMessage
\* without a call, the content of the dict is the content of the message
C16_EmptyContentIsNull ==
    (op = "_convert_message_to_dict" /\ arg.type = "AIMessage") =>
        /\ ~ret.raised
        /\ (arg.content = EmptyStr /\ CarriesCall(arg))
              => DictGet(ret.v, <<"content">>, EmptyStr) = PNone
        /\ ~CarriesCall(arg)
              => DictGet(ret.v, <<"content">>, PNone) = arg.content

(***************************************************************************)
(* Properties: the kind of a streamed chunk                                *)
(***************************************************************************)
\* the chunk class that stands for a role
ClassOfRole(role) ==
    CASE role = W("user") -> "HumanMessageChunk"
      [] role = W("assistant") -> "AIMessageChunk"
      [] role = W("system") -> "SystemMessageChunk"
      [] role = W("function") -> "FunctionMessageChunk"
      [] role = W("tool") -> "ToolMessageChunk"
      [] OTHER -> "ChatMessageChunk"

KnownRoles == {W("user"), W("assistant"), W("system"), W("function"), W("tool")}

\* the role of the delta of the call, None when it has none
DeltaRole == DictGet(arg._dict, <<"role">>, PNone)

\* C17: the chunk that _convert_delta_to_message_chunk returns for a delta
\* with one of the roles user, assistant, system, function, tool is of the
\* class of that role, whatever default_class is; for a delta without role it
\* is of the class default_class; for a delta with another non-empty role it
\* is a ChatMessageChunk with that role
C17_RoleBeforeDefaultClass ==
    (op = "_convert_delta_to_message_chunk" /\ ~ret.raised) =>
        /\ DeltaRole \in KnownRoles => ret.v.type = ClassOfRole(DeltaRole)
        /\ ~HasKey(arg._dict, <<"role">>) => ret.v.type = arg.default_class
        /\ (DeltaRole \notin KnownRoles /\ Truthy(DeltaRole))
              => (ret.v.type = "ChatMessageChunk" /\ ret.v.role = DeltaRole)

(***************************************************************************)
(* Properties: the rendered prompt                                         *)
(***************************************************************************)
\* the least index from i on at which sub occurs in s, 0 when there is none
RECURSIVE FindFrom(_, _, _)
FindFrom(s, i, sub) ==
    IF i + Len(sub) - 1 > Len(s) THEN 0
    ELSE IF StartsWithAt(s, i, sub) THEN i
    ELSE FindFrom(s, i + 1, sub)

\* the contents of the messages from k on occur in s from i on, one after
\* the other
RECURSIVE ContentsInOrder(_, _, _, _)
ContentsInOrder(s, i, messages, k) ==
    IF k > Len(messages) THEN TRUE
    ELSE /\ FindFrom(s, i, DictGet(messages[k], <<"content">>, PNone).v) > 0
         /\ ContentsInOrder(s,
                FindFrom(s, i, DictGet(messages[k], <<"content">>, PNone).v)
                + Len(DictGet(messages[k], <<"content">>, PNone).v),
                messages, k + 1)

\* the messages are dicts with one of the five roles and a str content, with
\* the name or the tool_call_id that a function or tool message has
RoleContentDicts(messages) ==
    \A k \in 1..Len(messages) :
        /\ DictGet(messages[k], <<"role">>, PNone) \in KnownRoles
        /\ DictGet(messages[k], <<"content">>, PNone).t = "str"
        /\ DictGet(messages[k], <<"role">>, PNone) = W("function")
              => HasKey(messages[k], <<"name">>)
        /\ DictGet(messages[k], <<"role">>, PNone) = W("tool")
              => HasKey(messages[k], <<"tool_call_id">>)

EndsWith(s, sub) == Len(s) >= Len(sub) /\ StartsWithAt(s, Len(s) - Len(sub) + 1, sub)

\* the prompt ends with what opens the turn of the assistant in the dialect
\* of the model: the assistant tag, the end of a user instruction, or the
\* line of an empty AI turn
EndsWithAssistantTurn(s) ==
    CASE model_id \in GraniteModels \cup Llama31Models -> EndsWith(s, AssistantMarker)
      [] model_id \in Llama2Models -> EndsWith(s, <<"\n", "[/INST]", "\n">>)
      [] OTHER -> EndsWith(s, EmptyAITurn)

\* C18: for every model_id and every sequence of role/content dicts, the
\* prompt of _create_chat_prompt contains the content of every message, in
\* the order of the messages, and ends with the opening of an assistant turn
C18_AllContentsThenAssistantTurn ==
    (op = "_create_chat_prompt" /\ RoleContentDicts(arg.messages.v)) =>
        /\ ~ret.raised
        /\ ContentsInOrder(ret.v.v, 1, arg.messages.v, 1)
        /\ EndsWithAssistantTurn(ret.v.v)

====
